---- MODULE Spec2Model ----
(***************************************************************************)
(* A model of src/app.py: the product-description web application.         *)
(*                                                                         *)
(* Python strings that the code cuts, trims or concatenates are modelled   *)
(* as sequences of one-character strings; a fixed literal of the source    *)
(* that is only ever copied whole is one element of such a sequence.       *)
(* A value that may be Python's None is a record [isNone, s].              *)
(***************************************************************************)
EXTENDS Integers, Sequences, FiniteSets, TLC

VARIABLES
    OPENAI_API_KEY,   \* module global, read once from the environment
    startup_warning,  \* whether logging.warning ran at import time
    request,          \* the request index() is handling / has handled
    context,          \* the keyword arguments index() gave render_template
    flashes,          \* the messages index() flashed for this request
    logged,           \* the exceptions index() logged for this request
    args,             \* the arguments of a direct call of generate_product_description
    behaviour,        \* what the generation boundary did when it was last invoked
    outcome,          \* how the last call of generate_product_description ended
    nreq,             \* requests handled so far
    ncalls            \* invocations of client.chat.completions.create so far

vars == <<OPENAI_API_KEY, startup_warning, request, context, flashes, logged,
          args, behaviour, outcome, nreq, ncalls>>

webvars == <<OPENAI_API_KEY, startup_warning, request, context, flashes, logged, nreq>>

-----------------------------------------------------------------------------
(* Bounds of the model *)

MaxKwLen == 3
MaxRequests == 2
MaxCalls == 2

-----------------------------------------------------------------------------
(* Python values *)

None == [isNone |-> TRUE, s |-> <<>>]
Str(s) == [isNone |-> FALSE, s |-> s]

\* bool(x) of an optional string: None and "" are falsy
Truthy(x) == ~x.isNone /\ Len(x.s) > 0

\* str.strip() removes every whitespace character; the space stands for them all
Whitespace == {" "}
Chars == {" ", ",", "a", "b"}

StringsUpTo(alphabet, n) == UNION {[1..k -> alphabet] : k \in 0..n}

RECURSIVE lstrip(_)
lstrip(s) ==
    IF s # <<>> /\ Head(s) \in Whitespace THEN lstrip(Tail(s)) ELSE s

RECURSIVE rstrip(_)
rstrip(s) ==
    IF s # <<>> /\ s[Len(s)] \in Whitespace
    THEN rstrip(SubSeq(s, 1, Len(s) - 1))
    ELSE s

\* str.strip()
strip(s) == rstrip(lstrip(s))

\* str.split(sep) for a one-character separator: always at least one segment
RECURSIVE split(_, _)
split(s, sep) ==
    IF \A i \in 1..Len(s) : s[i] # sep
    THEN <<s>>
    ELSE LET p == CHOOSE i \in 1..Len(s) :
                      s[i] = sep /\ \A j \in 1..(i - 1) : s[j] # sep
         IN  <<SubSeq(s, 1, p - 1)>> \o split(SubSeq(s, p + 1, Len(s)), sep)

\* sep.join(list)
RECURSIVE join(_, _)
join(sep, list) ==
    IF list = <<>> THEN <<>>
    ELSE IF Len(list) = 1 THEN list[1]
    ELSE list[1] \o sep \o join(sep, Tail(list))

-----------------------------------------------------------------------------
(* Tone configuration *)

TONE_STYLES ==
    [casual |->
        [label |-> "Casual",
         instruction |-> "Write in a friendly, conversational tone, like you're talking to a friend. Use simple language and a relaxed style."],
     professional |->
        [label |-> "Professional",
         instruction |-> "Write in a clear, concise, and professional tone suitable for a corporate audience. Avoid slang and keep it polished."],
     enthusiastic |->
        [label |-> "Enthusiastic",
         instruction |-> "Write in an energetic and upbeat tone that builds excitement. Use strong, positive language that makes the product feel irresistible."],
     technical |->
        [label |-> "Technical",
         instruction |-> "Write in a technical, detail-oriented tone. Emphasize specifications, performance, and measurable benefits."],
     luxury |->
        [label |-> "Luxury",
         instruction |-> "Write in a premium, luxurious tone. Highlight exclusivity, craftsmanship, and high-end lifestyle benefits."]]

NoTone == [isNone |-> TRUE, s |-> ""]
ToneKey(k) == [isNone |-> FALSE, s |-> k]

\* TONE_STYLES.get(tone_key, TONE_STYLES["professional"]), as a key
tone_default_casual(tone_key) ==
    IF ~tone_key.isNone /\ tone_key.s \in DOMAIN TONE_STYLES
    THEN tone_key.s
    ELSE "casual"
resolved_tone_key(tone_key) ==
    IF ~tone_key.isNone /\ tone_key.s \in DOMAIN TONE_STYLES
    THEN tone_key.s
    ELSE "professional"

tone_of(tone_key) == TONE_STYLES[resolved_tone_key(tone_key)]

-----------------------------------------------------------------------------
(* generate_product_description *)

\* [k.strip() for k in keywords.split(",") if k.strip()]
keyword_list_unfiltered(keywords) ==
    LET segs == split(keywords, ",")
    IN  [i \in 1..Len(segs) |-> strip(segs[i])]
keyword_list(keywords) ==
    LET segs == split(keywords, ",")
        kept == SelectSeq(segs, LAMBDA k : strip(k) # <<>>)
    IN  [i \in 1..Len(kept) |-> strip(kept[i])]

\* ", ".join(keyword_list) if keyword_list else "None"
keyword_str(keywords) ==
    IF keyword_list(keywords) # <<>>
    THEN join(<<",", " ">>, keyword_list(keywords))
    ELSE <<"None">>

\* one literal; the en dashes of "1-3" and "3-5" are written as hyphens here
system_message ==
    <<"You are an expert retail copywriter specializing in writing product descriptions that increase conversions. Always write in plain text (no markdown). Write 1-3 short paragraphs and optionally 3-5 bullet-style phrases separated by commas for key benefits. Keep the description between 120 and 220 words.">>

Directives ==
    <<"Write a compelling product description that:\n",
      "- Matches the tone described above\n",
      "- Naturally weaves in the keywords without sounding forced\n",
      "- Focuses on benefits, not just features\n",
      "- Speaks directly to retail customers shopping online\n">>

user_message_tone_last(product_name, keywords, tone_key) ==
    <<"Product name: ">> \o product_name \o <<"\n">>
    \o <<"Keywords to incorporate naturally: ">> \o keyword_str(keywords) \o <<"\n\n">>
    \o <<"Tone: ", tone_of(tone_key).label, "\n">>
    \o <<"Tone Instructions: ", tone_of(tone_key).instruction, "\n">>
    \o Directives
user_message_trims_name(product_name, keywords, tone_key) ==
    <<"Product name: ">> \o strip(product_name) \o <<"\n">>
    \o <<"Tone: ", tone_of(tone_key).label, "\n">>
    \o <<"Tone Instructions: ", tone_of(tone_key).instruction, "\n">>
    \o <<"Keywords to incorporate naturally: ">> \o keyword_str(keywords) \o <<"\n\n">>
    \o Directives
user_message(product_name, keywords, tone_key) ==
    <<"Product name: ">> \o product_name \o <<"\n">>
    \o <<"Tone: ", tone_of(tone_key).label, "\n">>
    \o <<"Tone Instructions: ", tone_of(tone_key).instruction, "\n">>
    \o <<"Keywords to incorporate naturally: ">> \o keyword_str(keywords) \o <<"\n\n">>
    \o Directives

\* the keyword arguments of client.chat.completions.create
create_request(product_name, keywords, tone_key) ==
    [model |-> "gpt-4o-mini",
     messages |-> <<[role |-> "system", content |-> system_message],
                    [role |-> "user",
                     content |-> user_message(product_name, keywords, tone_key)]>>,
     temperature |-> "0.8",
     max_tokens |-> 300]

\* What the boundary can do: raise, or answer with a list of candidates whose
\* text content is a string or None.
NoException == [type |-> "", detail |-> ""]
BoundaryFailures ==
    {[type |-> "APIConnectionError", detail |-> "Connection error."],
     [type |-> "AuthenticationError", detail |-> "Incorrect API key provided"]}

Raises(e) == [raises |-> TRUE, exc |-> e, choices |-> <<>>]
Responds(c) == [raises |-> FALSE, exc |-> NoException, choices |-> c]

ChoicesInputs ==
    {<<>>, <<None>>, <<Str(<<" ">>)>>, <<Str(<<" ", "a", " ", "b", " ">>)>>,
     <<Str(<<"a">>), Str(<<"b">>)>>, <<None, Str(<<"b">>)>>}

Behaviours ==
    {Raises(e) : e \in BoundaryFailures} \cup {Responds(c) : c \in ChoicesInputs}

\* the behaviours tried behind index()
WebBehaviours ==
    {Raises(e) : e \in BoundaryFailures}
    \cup {Responds(c) : c \in {<<>>, <<Str(<<" ">>)>>, <<Str(<<" ", "a", " ", "b", " ">>)>>}}

\* the boundary was not invoked
NoBehaviour ==
    [raises |-> FALSE, exc |-> [type |-> "not invoked", detail |-> ""], choices |-> <<>>]

\* response.choices[0].message.content.strip()
extract_last(response) ==
    IF response.choices = <<>>
    THEN [ok |-> FALSE, text |-> <<>>,
          exc |-> [type |-> "IndexError", detail |-> "list index out of range"]]
    ELSE IF response.choices[Len(response.choices)].isNone
    THEN [ok |-> FALSE, text |-> <<>>,
          exc |-> [type |-> "AttributeError",
                   detail |-> "'NoneType' object has no attribute 'strip'"]]
    ELSE [ok |-> TRUE, text |-> strip(response.choices[Len(response.choices)].s),
          exc |-> NoException]
extract(response) ==
    IF response.choices = <<>>
    THEN [ok |-> FALSE, text |-> <<>>,
          exc |-> [type |-> "IndexError", detail |-> "list index out of range"]]
    ELSE IF response.choices[1].isNone
    THEN [ok |-> FALSE, text |-> <<>>,
          exc |-> [type |-> "AttributeError",
                   detail |-> "'NoneType' object has no attribute 'strip'"]]
    ELSE [ok |-> TRUE, text |-> strip(response.choices[1].s), exc |-> NoException]

NoCall == [kind |-> "none", value |-> None, exc |-> NoException, calls |-> <<>>]

\* The whole function for one behaviour b of the boundary: the requests it
\* sent, and either the value it returned or the exception that left it.
generate_with_retry(product_name, keywords, tone_key, b) ==
    LET req == create_request(product_name, keywords, tone_key)
    IN  IF b.raises
        THEN [kind |-> "raise", value |-> None, exc |-> b.exc, calls |-> <<req, req>>]
        ELSE IF extract(b).ok
        THEN [kind |-> "return", value |-> Str(extract(b).text),
              exc |-> NoException, calls |-> <<req>>]
        ELSE [kind |-> "raise", value |-> None, exc |-> extract(b).exc,
              calls |-> <<req>>]
generate_product_description(product_name, keywords, tone_key, b) ==
    LET req == create_request(product_name, keywords, tone_key)
    IN  IF b.raises
        THEN [kind |-> "raise", value |-> None, exc |-> b.exc, calls |-> <<req>>]
        ELSE IF extract(b).ok
        THEN [kind |-> "return", value |-> Str(extract(b).text),
              exc |-> NoException, calls |-> <<req>>]
        ELSE [kind |-> "raise", value |-> None, exc |-> extract(b).exc,
              calls |-> <<req>>]

-----------------------------------------------------------------------------
(* index *)

GET == [method |-> "GET", form |-> <<>>]
NoRequest == [method |-> "", form |-> <<>>]

\* request.form.get(field, default)
form_get(form, field, default) ==
    IF field \in DOMAIN form THEN form[field] ELSE default

form_product_name_unstripped(form) == form_get(form, "product_name", <<>>)
form_product_name(form) == strip(form_get(form, "product_name", <<>>))
form_keywords(form) == strip(form_get(form, "keywords", <<>>))
form_tone_resolved(form) ==
    resolved_tone_key(ToneKey(form_get(form, "tone", "professional")))
form_tone(form) == form_get(form, "tone", "professional")

\* not OPENAI_API_KEY
key_is_none(key) == key.isNone
key_missing(key) == ~Truthy(key)

NameWarning == <<"Please enter a product name.", "warning">>
ConfigError ==
    <<"OpenAI API key is not configured. Please set OPENAI_API_KEY and restart the app.",
      "danger">>
failure_flash_detailed(e) == <<e.detail, "danger">>
failure_flash(e) ==
    <<"Sorry, something went wrong while generating the description. Please try again.",
      "danger">>


rendered(generated_text, product_name, keywords, selected_tone) ==
    [generated_text |-> generated_text, product_name |-> product_name,
     keywords |-> keywords, selected_tone |-> selected_tone]

NoContext == rendered(None, <<>>, <<>>, "")

Get ==
    /\ nreq < MaxRequests
    /\ request' = GET
    /\ context' = rendered(None, <<>>, <<>>, "professional")
    /\ flashes' = <<>>
    /\ logged' = <<>>
    /\ outcome' = NoCall
    /\ behaviour' = NoBehaviour
    /\ nreq' = nreq + 1
    /\ UNCHANGED <<OPENAI_API_KEY, startup_warning, args, ncalls>>

Post(form, b) ==
    /\ nreq < MaxRequests
    /\ request' = [method |-> "POST", form |-> form]
    /\ nreq' = nreq + 1
    /\ LET name == form_product_name(form)
           kws == form_keywords(form)
           tone == form_tone(form)
           o == generate_product_description(name, kws, ToneKey(tone), b)
       IN  IF name = <<>>
           THEN /\ flashes' = <<NameWarning>>
                /\ context' = rendered(None, name, kws, tone)
                /\ UNCHANGED ncalls
                /\ logged' = <<>>
                /\ outcome' = NoCall
                /\ behaviour' = NoBehaviour
           ELSE IF key_missing(OPENAI_API_KEY)
           THEN /\ flashes' = <<ConfigError>>
                /\ context' = rendered(None, name, kws, tone)
                /\ UNCHANGED ncalls
                /\ logged' = <<>>
                /\ outcome' = NoCall
                /\ behaviour' = NoBehaviour
           ELSE /\ outcome' = o
                /\ behaviour' = b
                /\ ncalls' = ncalls + Len(o.calls)
                /\ IF o.kind = "return"
                   THEN /\ context' = rendered(o.value, name, kws, tone)
                        /\ flashes' = <<>>
                        /\ logged' = <<>>
                   ELSE /\ context' = rendered(None, name, kws, tone)
                        /\ flashes' = <<failure_flash(o.exc)>>
                        /\ logged' = <<o.exc>>
    /\ UNCHANGED <<OPENAI_API_KEY, startup_warning, args>>

\* The forms a browser or any other client can submit
FormFields == {"product_name", "keywords", "tone"}
NameInputs == {<<>>, <<" ">>, <<"a">>, <<" ", "a", " ">>}
KeywordFormInputs == {<<>>, <<" ", "a", ",", ",", "b", " ">>}
ToneInputs == {"", "luxury", "unknown_tone_xyz"}

\* a multidict with the given fields; a field that is None is not submitted
form_of(n, k, t) ==
    [f \in {x \in FormFields : \/ x = "product_name" /\ ~n.isNone
                               \/ x = "keywords" /\ ~k.isNone
                               \/ x = "tone" /\ ~t.isNone} |->
        IF f = "product_name" THEN n.s ELSE IF f = "keywords" THEN k.s ELSE t.s]

Forms ==
    {form_of(n, k, t) : n \in {None} \cup {Str(x) : x \in NameInputs},
                        k \in {None} \cup {Str(x) : x \in KeywordFormInputs},
                        t \in {NoTone} \cup {ToneKey(x) : x \in ToneInputs}}

KeyInputs == {None, Str(<<>>), Str(<<"a">>)}

Init ==
    /\ OPENAI_API_KEY \in KeyInputs
    /\ startup_warning = key_missing(OPENAI_API_KEY)
    /\ request = NoRequest
    /\ context = NoContext
    /\ flashes = <<>>
    /\ logged = <<>>
    /\ args = <<>>
    /\ behaviour = NoBehaviour
    /\ outcome = NoCall
    /\ nreq = 0
    /\ ncalls = 0

Next ==
    \/ Get
    \/ \E form \in Forms, b \in WebBehaviours : Post(form, b)

Spec == Init /\ [][Next]_vars

-----------------------------------------------------------------------------
(* generate_product_description called directly, on any arguments *)

CoreNames == {<<>>, <<"a">>, <<" ", "a", " ">>}
CoreTones ==
    {NoTone} \cup {ToneKey(k) : k \in DOMAIN TONE_STYLES \cup {"", "unknown_tone_xyz"}}

CoreArgs ==
    [product_name : CoreNames, keywords : StringsUpTo(Chars, MaxKwLen), tone_key : CoreTones]

CoreInit ==
    /\ args \in CoreArgs
    /\ OPENAI_API_KEY = Str(<<"a">>)
    /\ startup_warning = FALSE
    /\ request = NoRequest
    /\ context = NoContext
    /\ flashes = <<>>
    /\ logged = <<>>
    /\ behaviour = NoBehaviour
    /\ outcome = NoCall
    /\ nreq = 0
    /\ ncalls = 0

CallGenerate(b) ==
    /\ ncalls < MaxCalls
    /\ behaviour' = b
    /\ outcome' = generate_product_description(args.product_name, args.keywords,
                                               args.tone_key, b)
    /\ ncalls' = ncalls + Len(outcome'.calls)
    /\ UNCHANGED <<webvars, args>>

CoreNext == \E b \in Behaviours : CallGenerate(b)

SpecCore == CoreInit /\ [][CoreNext]_vars

-----------------------------------------------------------------------------
(* Vocabulary of the properties, stated on positions rather than by the    *)
(* recursions the model of the code uses.                                  *)

Min(S) == CHOOSE x \in S : \A y \in S : x <= y
Max(S) == CHOOSE x \in S : \A y \in S : x >= y
Nth(S, j) == CHOOSE x \in S : Cardinality({y \in S : y < x}) = j - 1

Blank(s) == \A i \in 1..Len(s) : s[i] \in Whitespace

Trimmed(s) ==
    LET nw == {i \in 1..Len(s) : s[i] \notin Whitespace}
    IN  IF nw = {} THEN <<>> ELSE SubSeq(s, Min(nw), Max(nw))

\* the trimmed non-blank comma-separated segments of raw, in order
ExpectedKeywords(raw) ==
    LET bnds == {0, Len(raw) + 1} \cup {i \in 1..Len(raw) : raw[i] = ","}
        seg(j) == SubSeq(raw, Nth(bnds, j) + 1, Nth(bnds, j + 1) - 1)
        J == {j \in 1..(Cardinality(bnds) - 1) : ~Blank(seg(j))}
    IN  [i \in 1..Cardinality(J) |-> Trimmed(seg(Nth(J, i)))]

\* c is the entries of list, each followed by ", " except the last
IsJoin(c, list) ==
    LET RECURSIVE off(_)
        \* the length of c before entry i
        off(i) == IF i = 1 THEN 0 ELSE off(i - 1) + Len(list[i - 1]) + 2
    IN  /\ Len(c) = off(Len(list) + 1) - 2
        /\ \A i \in 1..Len(list) :
              /\ SubSeq(c, off(i) + 1, off(i) + Len(list[i])) = list[i]
              /\ i < Len(list) =>
                    /\ c[off(i) + Len(list[i]) + 1] = ","
                    /\ c[off(i) + Len(list[i]) + 2] = " "

FixedTones == {"casual", "professional", "enthusiastic", "technical", "luxury"}

ExpectedTone(tone_key) ==
    IF \E k \in FixedTones : tone_key = ToneKey(k)
    THEN TONE_STYLES[tone_key.s]
    ELSE TONE_STYLES["professional"]

GenericMessage ==
    "Sorry, something went wrong while generating the description. Please try again."

\* generate_product_description has been called and reached the boundary
Called == outcome.calls # <<>>
Invoked == behaviour.exc.type # "not invoked"
SentUser == outcome.calls[1].messages[2].content

\* the boundary raised, or its response has no candidate 0 with text content
BoundaryFailed(b) ==
    \/ b.raises
    \/ b.choices = <<>>
    \/ b.choices[1].isNone

FirstPos(m, tok) == Min({i \in 1..Len(m) : m[i] = tok})
LastPos(m, tok) == Max({i \in 1..Len(m) : m[i] = tok})

\* the parts of a composed user message, read back from it
NameIn(m) == SubSeq(m, 2, FirstPos(m, "Tone: ") - 2)
LabelIn(m) == m[FirstPos(m, "Tone: ") + 1]
InstructionIn(m) == m[FirstPos(m, "Tone Instructions: ") + 1]
ClauseIn(m) ==
    SubSeq(m, LastPos(m, "Keywords to incorporate naturally: ") + 1,
           LastPos(m, "\n\n") - 1)

IsPost == request.method = "POST"
SubmittedName == form_get(request.form, "product_name", <<>>)
SubmittedKeywords == form_get(request.form, "keywords", <<>>)
NameBlank == Blank(SubmittedName)
KeyAbsent == OPENAI_API_KEY.isNone \/ OPENAI_API_KEY.s = <<>>

-----------------------------------------------------------------------------
(* C1 *)

-----------------------------------------------------------------------------
(* C2 *)

\* C2: a POST whose product_name is missing, empty or only whitespace invokes
\* neither generate_product_description nor the boundary, whatever keywords,
\* tone and credential are; it ends with the product-name warning and no text.
C2_BlankNameNeverGenerates ==
    [][(nreq' = nreq + 1 /\ request'.method = "POST"
        /\ Blank(form_get(request'.form, "product_name", <<>>))) =>
            /\ ncalls' = ncalls
            /\ outcome'.kind = "none"
            /\ outcome'.calls = <<>>
            /\ ~Invoked'
            /\ flashes' = <<<<"Please enter a product name.", "warning">>>>
            /\ context'.generated_text = None]_vars

C2_Witness ==
    /\ IsPost
    /\ SubmittedName = <<" ">>
    /\ ~KeyAbsent
    /\ SubmittedKeywords # <<>>
    /\ flashes = <<NameWarning>>
    /\ ncalls = 0
    /\ nreq = 1

-----------------------------------------------------------------------------
(* C3 *)

\* C3: with OPENAI_API_KEY unset or empty the process starts and handles
\* requests, the boundary is never invoked by any sequence of requests, no
\* request yields text, and every POST with a non-blank product name ends
\* with the configuration message.
C3_NoCredentialNeverGenerates ==
    KeyAbsent =>
        /\ startup_warning
        /\ ncalls = 0
        /\ ~Called /\ ~Invoked
        /\ context.generated_text = None
        /\ (IsPost /\ ~NameBlank) =>
              flashes = <<<<"OpenAI API key is not configured. Please set OPENAI_API_KEY and restart the app.",
                            "danger">>>>

C3_Witness ==
    /\ OPENAI_API_KEY = Str(<<>>)
    /\ nreq = MaxRequests
    /\ IsPost /\ ~NameBlank
    /\ flashes = <<ConfigError>>

-----------------------------------------------------------------------------
(* C4 *)

\* C4: for every raw keyword string the keyword list is the comma-separated
\* segments, trimmed, blank ones dropped, in order, duplicates kept; no entry
\* is blank; the keyword clause of the composed prompt is "None" when the list
\* is empty (raw string empty or only commas and whitespace) and otherwise
\* the entries joined by ", ".
C4_KeywordClause ==
    LET raw == args.keywords
        list == keyword_list(raw)
    IN  /\ list = ExpectedKeywords(raw)
        /\ \A i \in 1..Len(list) : ~Blank(list[i]) /\ list[i] = Trimmed(list[i])
        /\ list = <<>> <=> \A i \in 1..Len(raw) : raw[i] \in Whitespace \cup {","}
        /\ Called =>
              IF \A i \in 1..Len(raw) : raw[i] \in Whitespace \cup {","}
              THEN ClauseIn(SentUser) = <<"None">>
              ELSE IsJoin(ClauseIn(SentUser), ExpectedKeywords(raw))

C4_Witness ==
    /\ Called
    /\ args.keywords = <<"a", ",", "a">>
    /\ keyword_list(args.keywords) = <<<<"a">>, <<"a">>>>
    /\ ClauseIn(SentUser) = <<"a", ",", " ", "a">>

C4_WitnessNone ==
    /\ Called
    /\ args.keywords = <<",", " ", ",">>
    /\ ClauseIn(SentUser) = <<"None">>

-----------------------------------------------------------------------------
(* C5 *)

\* C5: for any tone identifier (recognised, unknown, empty, absent) a call
\* composes its prompt with a definition of the fixed set of five tones: its
\* own when the identifier is recognised, the professional one otherwise; and
\* the lookup signals no error, so the call always reaches the boundary.
C5_ToneLookupTotal ==
    /\ DOMAIN TONE_STYLES = FixedTones
    /\ (outcome.kind # "none") =>
          /\ Called
          /\ \E k \in FixedTones :
                /\ LabelIn(SentUser) = TONE_STYLES[k].label
                /\ InstructionIn(SentUser) = TONE_STYLES[k].instruction
          /\ LabelIn(SentUser) = ExpectedTone(args.tone_key).label
          /\ InstructionIn(SentUser) = ExpectedTone(args.tone_key).instruction

C5_Witness ==
    /\ Called
    /\ args.tone_key = ToneKey("unknown_tone_xyz")
    /\ LabelIn(SentUser) = "Professional"

C5_WitnessAbsent ==
    /\ Called
    /\ args.tone_key = NoTone
    /\ LabelIn(SentUser) = "Professional"

-----------------------------------------------------------------------------
(* C6 *)

\* C6: a request invokes the boundary at most once; when that call fails the
\* request ends in failure without a second call; a later request invokes
\* the boundary again whenever its own name and the credential are valid,
\* also with the inputs of the request before it, and its result is that of
\* its own call, not of the earlier request.
C6_NoRetryNoCache ==
    [][(nreq' = nreq + 1) =>
          /\ ncalls' <= ncalls + 1
          /\ Len(outcome'.calls) <= 1
          /\ ncalls' = ncalls + Len(outcome'.calls)
          /\ (Invoked' /\ BoundaryFailed(behaviour')) =>
                /\ ncalls' = ncalls + 1
                /\ context'.generated_text = None
                /\ Len(flashes') = 1
          /\ (request'.method = "POST"
              /\ ~Blank(form_get(request'.form, "product_name", <<>>))
              /\ ~KeyAbsent) =>
                /\ ncalls' = ncalls + 1
                /\ Invoked'
                /\ ~BoundaryFailed(behaviour') =>
                      context'.generated_text = Str(Trimmed(behaviour'.choices[1].s))
          /\ (request' = request /\ behaviour' = behaviour) =>
                /\ context' = context
                /\ flashes' = flashes
                /\ outcome' = outcome]_vars

\* two requests, each of which invoked the boundary once, the second failing
C6_Witness ==
    /\ nreq = 2
    /\ ncalls = 2
    /\ IsPost /\ Invoked
    /\ behaviour.raises
    /\ context.generated_text = None

-----------------------------------------------------------------------------
(* C7 *)

\* C7 (composition): the user message holds, in this order, the product name,
\* the resolved tone's label, its instruction, the keyword string or "None",
\* and the four directives, and is the second of the two messages sent, after
\* the system message.
C7_Composed ==
    Called =>
        LET m == SentUser
            n == Len(args.product_name)
            c == Len(ClauseIn(m))
        IN  /\ Len(outcome.calls[1].messages) = 2
            /\ outcome.calls[1].messages[1].role = "system"
            /\ outcome.calls[1].messages[1].content = system_message
            /\ outcome.calls[1].messages[2].role = "user"
            /\ m[1] = "Product name: "
            /\ SubSeq(m, 2, n + 1) = args.product_name
            /\ SubSeq(m, n + 2, n + 9) =
                  <<"\n", "Tone: ", ExpectedTone(args.tone_key).label, "\n",
                    "Tone Instructions: ", ExpectedTone(args.tone_key).instruction,
                    "\n", "Keywords to incorporate naturally: ">>
            /\ IF ExpectedKeywords(args.keywords) = <<>>
               THEN SubSeq(m, n + 10, n + 9 + c) = <<"None">>
               ELSE IsJoin(SubSeq(m, n + 10, n + 9 + c), ExpectedKeywords(args.keywords))
            /\ SubSeq(m, n + 10 + c, Len(m)) =
                  <<"\n\n",
                    "Write a compelling product description that:\n",
                    "- Matches the tone described above\n",
                    "- Naturally weaves in the keywords without sounding forced\n",
                    "- Focuses on benefits, not just features\n",
                    "- Speaks directly to retail customers shopping online\n">>
            /\ Len(m) = n + 15 + c

\* C7 (determinism): a second call with the same arguments sends the same
\* pair of messages, whatever the boundary answered the first time.
C7_SameMessages ==
    (Called /\ Called' /\ args' = args) =>
        outcome'.calls[1].messages = outcome.calls[1].messages

\* C7: the user message is composed in the fixed field order, sent as the
\* second message of the (system, user) pair, and composing twice with the
\* same inputs gives the same pair.
C7_PromptComposition == []C7_Composed /\ [][C7_SameMessages]_vars

C7_Witness ==
    /\ Called
    /\ ncalls = 2
    /\ args.product_name = <<"a">>
    /\ args.keywords = <<"b", ",", "a">>
    /\ args.tone_key = ToneKey("enthusiastic")
    /\ LabelIn(SentUser) = "Enthusiastic"
    /\ FirstPos(SentUser, "Tone: ") < FirstPos(SentUser, "Keywords to incorporate naturally: ")

-----------------------------------------------------------------------------
(* C8 *)

\* C8 as stated: for any product_name passed to generate_product_description
\* the name interpolated into the user message is the trimmed product_name.
C8_Original ==
    Called => NameIn(SentUser) = Trimmed(args.product_name)

\* C8 amended: generate_product_description does not trim product_name: the
\* name interpolated into the user message is the product_name it was given,
\* character for character, so it is the trimmed name exactly when the
\* caller passed a name without leading or trailing whitespace.
C8_NameInterpolatedAsGiven ==
    Called =>
        /\ NameIn(SentUser) = args.product_name
        /\ Len(NameIn(SentUser)) = Len(args.product_name)
        /\ (NameIn(SentUser) = Trimmed(args.product_name)) <=>
              \/ args.product_name = <<>>
              \/ /\ args.product_name[1] \notin Whitespace
                 /\ args.product_name[Len(args.product_name)] \notin Whitespace

C8_Witness ==
    /\ Called
    /\ args.product_name = <<" ", "a", " ">>
    /\ NameIn(SentUser) = <<" ", "a", " ">>

-----------------------------------------------------------------------------
(* C9 *)

\* C9: when the boundary answers, the call returns the text content of
\* candidate 0, trimmed, whatever the other candidates are; when the answer
\* has no candidate, or candidate 0 has no text content, the call fails and
\* returns nothing.
C9_Extraction ==
    (Called /\ Invoked /\ ~behaviour.raises) =>
        IF behaviour.choices # <<>> /\ ~behaviour.choices[1].isNone
        THEN /\ outcome.kind = "return"
             /\ outcome.value = Str(Trimmed(behaviour.choices[1].s))
             /\ outcome.exc = NoException
        ELSE /\ outcome.kind = "raise"
             /\ outcome.value = None
             /\ outcome.exc.type \in {"IndexError", "AttributeError"}

C9_Witness ==
    /\ Called
    /\ behaviour.choices = <<Str(<<"a">>), Str(<<"b">>)>>
    /\ outcome.value = Str(<<"a">>)

C9_WitnessTrim ==
    /\ Called
    /\ behaviour.choices = <<Str(<<" ", "a", " ", "b", " ">>)>>
    /\ outcome.value = Str(<<"a", " ", "b">>)

C9_WitnessMalformed ==
    /\ Called
    /\ behaviour.choices = <<None, Str(<<"b">>)>>
    /\ outcome.kind = "raise"

-----------------------------------------------------------------------------
(* C10 *)

\* C10: a GET renders no text and no flash; a POST renders either a text and
\* no flash, or no text and exactly one flash: the name warning when the name
\* is blank, else the configuration message when the credential is absent,
\* else the generic message when generation failed. The rendered product
\* name and keywords are the submitted values trimmed, and the selected tone
\* is the submitted identifier as it came (the defaults when not submitted).
C10_OneOutcome ==
    /\ request.method = "GET" =>
          /\ context = rendered(None, <<>>, <<>>, "professional")
          /\ flashes = <<>>
    /\ IsPost =>
          /\ \/ ~context.generated_text.isNone /\ flashes = <<>>
             \/ context.generated_text = None /\ Len(flashes) = 1
          /\ IF NameBlank
             THEN flashes = <<<<"Please enter a product name.", "warning">>>>
             ELSE IF KeyAbsent
             THEN flashes = <<<<"OpenAI API key is not configured. Please set OPENAI_API_KEY and restart the app.",
                                "danger">>>>
             ELSE IF BoundaryFailed(behaviour)
             THEN flashes = <<<<GenericMessage, "danger">>>>
             ELSE flashes = <<>>
          /\ context.product_name = Trimmed(SubmittedName)
          /\ context.keywords = Trimmed(SubmittedKeywords)
          /\ context.selected_tone =
                IF "tone" \in DOMAIN request.form THEN request.form["tone"]
                ELSE "professional"

C10_Witness ==
    /\ IsPost
    /\ ~context.generated_text.isNone
    /\ flashes = <<>>
    /\ SubmittedName = <<" ", "a", " ">>
    /\ context.product_name = <<"a">>
    /\ context.selected_tone = "unknown_tone_xyz"

C10_WitnessPrecedence ==
    /\ IsPost
    /\ NameBlank /\ KeyAbsent
    /\ flashes = <<NameWarning>>

====
